---- MODULE Spec2Model ----
(***************************************************************************)
(* Streaming search of backend/main.py: the /api/search/stream handler,    *)
(* its blocking producer (generator, run by sync_worker on a thread), its  *)
(* consumer loop (async_generator), the process-wide CANCEL_FLAGS map and  *)
(* the /api/search/cancel handler; and MeasurementParser (to_inches,       *)
(* extract_tops, within) on its own.                                       *)
(***************************************************************************)
EXTENDS Integers, Sequences, FiniteSets, TLC

(* ---------------------------- bounds ----------------------------------- *)
\* largest number of candidate links collect_listing_links returns here
MaxLinks == 2
\* largest maxItems value a request payload carries here
MaxItemsReq == 1
\* largest number of tokens of a description given to extract_tops here
MaxTokens == 4

(* ------------------------ program constants ---------------------------- *)
\* int(payload.get("maxItems") or 40)
DefaultMaxItems == 40

\* searchId values of the streaming request ("" = payload without searchId)
SearchIds == {"", "A"}
\* searchId values of cancel calls; "B" is an id the request modelled step
\* by step never has
CancelIds == {"", "A", "B"}
\* the searchId of a concurrent run
OtherId == "B"
Categories == {"tops", "bottoms"}
\* maxItems values of the payload; 0 stands for an absent / zero field,
\* which "or 40" replaces by the default; a negative value is kept as it is
PayloadMaxItems == (0 - 1) .. MaxItemsReq
\* what one unit of work does: parse_listing returned None, measurement
\* extraction raised, the listing did not match, the listing matched
Outcomes == {"none", "raise", "nomatch", "match"}
\* JSON null in a numeric field of an event, None for a measurement
NoneInt == 0 - 1

\* measurements, targets and tolerances are counted in half inches
\* float(payload.get("tolerance") or 0.5)
DefaultTol == 1
\* tolerance values of the payload; 0 stands for an absent / zero field
PayloadTols == {0, 2}
\* p2pTolerance / lengthTolerance values of the payload
TolFieldValues == {1, 2}
\* measurements.first / measurements.second of the payload
PayloadTargets == {NoneInt, 40}
\* what extract_tops finds in a description, per dimension
Measures == {NoneInt, 37, 42}
\* no listing has been parsed yet
NoItem == [p2p |-> NoneInt, length |-> NoneInt, sold |-> 0, parsed |-> FALSE]
\* seller handles of the payload; "" stands for an absent field
Sellers == {"", "shop"}
\* sold counts a listing's page shows for its seller (parse_listing does not
\* read them)
SoldCounts == {50, 51}

VARIABLES
    category,     \* payload["category"], lower-cased
    search_id,    \* str(payload.get("searchId") or "")
    max_items,    \* int(payload.get("maxItems") or 40)
    flags,        \* CANCEL_FLAGS: function from the ids present to BOOLEAN
    pc,           \* position of the producer (generator + sync_worker)
    cpc,          \* position of the request handler / consumer loop
    connected,    \* the client's connection is still open
    queue,        \* result_queue
    emitted,      \* history: every chunk the stream's generator yielded
    sent,         \* history: every chunk handed to the network
    links,        \* links returned by collect_listing_links
    idx,          \* number of loop iterations of "for i, url" begun so far
    matches,      \* matches counter
    processed,    \* processed counter
    fetched,      \* history: urls given to parse_listing, in order
    outcomes,     \* history: outcome of each unit of work, in order
    session,      \* state of the playwright driver, browser and context
    releases,     \* history: how often each session resource was released
    unregistered, \* history: how often the finally block deleted the flag
    fault,        \* history: where the run met its fatal fault, if it did
    cancel_resp,  \* what the latest cancel_stream call returned
    cancel_again, \* the latest cancel call found the flag of its id set
    target_p2p,   \* float(measurements.first), or NoneInt
    target_length, \* float(measurements.second), or NoneInt
    tol,          \* float(payload.get("tolerance") or 0.5)
    tol_fields,   \* payload fields p2pTolerance, lengthTolerance (not read)
    item,         \* p2p and length extracted for the listing worked on last
    seller,       \* (payload.get("seller") or "").strip(); "" is global browse
    set_at,       \* history: units of work completed when the flag was set
    text,         \* the description given to extract_tops, as tokens
    extracted,    \* what extract_tops(text) did
    conv,         \* a to_inches call: its arguments and what it did
    cl,           \* a collect_listing_links call: its arguments and locals
    other         \* position of a concurrent run whose searchId is OtherId

vars == <<category, search_id, max_items, flags, pc, cpc, connected, queue,
          emitted, sent, links, idx, matches, processed, fetched, outcomes,
          session, releases, unregistered, fault, cancel_resp, cancel_again,
          target_p2p, target_length, tol, tol_fields, item, seller, set_at,
          text, extracted, conv, cl, other>>

reqVars == <<category, search_id, max_items, target_p2p, target_length, tol,
             tol_fields, seller>>
\* the variables of the parser on its own
probeVars == <<text, extracted, conv, cl, other>>
\* the variables only a few steps write
obsVars == <<fault, cancel_resp, cancel_again, item, set_at, probeVars>>
loopVars == <<links, idx, matches, processed, fetched, outcomes>>
sessVars == <<session, releases>>

(* ------------------------------ events --------------------------------- *)
\* _sse(data): one event; absent fields are NoneInt / ""
Ev(type, phase, proc, total, m, nlinks) ==
    [type |-> type, phase |-> phase, processed |-> proc, total |-> total,
     matches |-> m, links |-> nlinks, searchId |-> search_id]

SSE_PREAMBLE == [type |-> "preamble", phase |-> "", processed |-> NoneInt,
                 total |-> NoneInt, matches |-> NoneInt, links |-> NoneInt,
                 searchId |-> ""]
HelloEv == Ev("hello", "", NoneInt, NoneInt, NoneInt, NoneInt)
LandingEv == Ev("progress", "landing", 0, NoneInt, 0, NoneInt)
MetaEv(n) == Ev("meta", "", NoneInt, NoneInt, NoneInt, n)
CancelledEv == Ev("cancelled", "", NoneInt, NoneInt, NoneInt, NoneInt)
MatchEv == Ev("match", "", NoneInt, NoneInt, NoneInt, NoneInt)
\* the progress event of a listing without a record, built before
\* "processed += 1"
ParsingProgressEv_Stale(p, t, m) ==
    Ev("progress", "parsing", p - 1, t, m, NoneInt)
\* the progress event of a listing without a record (phase "parsing")
ParsingProgressEv(p, t, m) == Ev("progress", "parsing", p, t, m, NoneInt)
\* a per-item progress event whose total is the number processed so far
ProgressEv_TotalSoFar(p, t, m) == Ev("progress", "", p, p, m, NoneInt)

\* the per-item progress event: processed, total = len(links), matches
ProgressEv(p, t, m) == Ev("progress", "", p, t, m, NoneInt)
ErrorEv == Ev("error", "", NoneInt, NoneInt, NoneInt, NoneInt)
DoneEv == Ev("done", "", NoneInt, NoneInt, NoneInt, NoneInt)
\* empty_gen's done event carries no searchId
EmptyDoneEv == [type |-> "done", phase |-> "", processed |-> NoneInt,
                total |-> NoneInt, matches |-> NoneInt, links |-> NoneInt,
                searchId |-> ""]

(* --------------------------- CANCEL_FLAGS ------------------------------ *)
\* CANCEL_FLAGS[id] = v
FlagSet(f, id, v) == [k \in (DOMAIN f) \cup {id} |-> IF k = id THEN v ELSE f[k]]
\* a teardown that empties the registry
FlagDel_Clear(f, id) == << >>

\* del CANCEL_FLAGS[id]
FlagDel(f, id) == [k \in (DOMAIN f) \ {id} |-> f[k]]
\* CANCEL_FLAGS.get(id), as a truth value
FlagGet(f, id) == id \in DOMAIN f /\ f[id]
\* the flag read without the "search_id and" guard
IsCancelled_NoGuard == FlagGet(flags, search_id)

\* "if search_id and CANCEL_FLAGS.get(search_id)"
IsCancelled == search_id # "" /\ FlagGet(flags, search_id)

\* bookkeeping of a step that writes CANCEL_FLAGS: the number of units of
\* work completed at the moment the run's flag turned true, NoneInt while
\* the flag is not true
TrackSetAt ==
    set_at' = IF search_id # "" /\ FlagGet(flags', search_id)
              THEN (IF IsCancelled THEN set_at ELSE Len(outcomes))
              ELSE NoneInt

(* --------------------------- cancel_stream ----------------------------- *)
\* a cancel that flips the flag in place of setting it
CancelEffect_Toggle(f, id) ==
    IF id = "" THEN f ELSE FlagSet(f, id, ~FlagGet(f, id))

\* what cancel_stream does to CANCEL_FLAGS
CancelEffect(f, id) == IF id = "" THEN f ELSE FlagSet(f, id, TRUE)
\* a cancel that acknowledges every payload
CancelResponse_AlwaysOk(id) == [ok |-> TRUE, searchId |-> id, error |-> ""]

\* what cancel_stream returns
CancelResponse(id) ==
    IF id = "" THEN [ok |-> FALSE, searchId |-> "", error |-> "missing searchId"]
               ELSE [ok |-> TRUE, searchId |-> id, error |-> ""]
\* no cancel call has been made
NoResponse == [ok |-> FALSE, searchId |-> "", error |-> "no call"]

(* ------------------------- MeasurementParser --------------------------- *)
\* lengths are counted in 1/508 inch: an inch is 508, a half inch 254 and a
\* centimetre (1 / 2.54 inch) 200, so every conversion here is exact
UnitsPerInch == 508
\* to_inches raised (ValueError or ZeroDivisionError)
Raised == 0 - 2

\* a number string: its whole part, its fraction num/den and a unit text
\* glued to its end; an absent part is NoneInt or ""
NumStr(w, n, d, sfx) == [whole |-> w, num |-> n, den |-> d, suffix |-> sfx]

\* to_inches up to the unit: float(a) + float(Fraction(b)), float(Fraction(s))
\* or float(s); float and Fraction reject a text with a unit glued to it,
\* Fraction rejects a zero denominator and float the empty string
NumValue(ns) ==
    IF ns.suffix # "" THEN Raised
    ELSE IF ns.den # NoneInt
         THEN IF ns.den = 0 THEN Raised
              ELSE (IF ns.whole = NoneInt THEN 0 ELSE ns.whole * UnitsPerInch)
                   + (ns.num * UnitsPerInch) \div ns.den
         ELSE IF ns.whole = NoneInt THEN Raised
              ELSE ns.whole * UnitsPerInch

\* "if u.startswith('cm'): return value / 2.54"; every other unit, "mm"
\* included, leaves the value as it is
ConvertUnit(value, unit_str) ==
    IF value = Raised THEN Raised
    ELSE IF unit_str = "cm" THEN (value * 100) \div 254
    ELSE value

\* a conversion that reads the unit glued to the number string as well
ToInches_ParseSuffix(ns, unit_str) ==
    ConvertUnit(NumValue([ns EXCEPT !.suffix = ""]),
                IF ns.suffix # "" THEN ns.suffix ELSE unit_str)

\* to_inches(num_str, unit_str)
ToInches(ns, unit_str) == ConvertUnit(NumValue(ns), unit_str)

\* num_str followed by a unit text, as in "19" + "cm"
Glue(ns, u) == [ns EXCEPT !.suffix = u]

\* A description is a sequence of tokens.  A word token is one of the texts
\* "chest: ", "length: ", "measured flat ", "\n" and " x "; a number token is
\* a number with its unit, followed by a blank: "24 ", "70cm ", "19 1/2 "
Word(k) ==
    [kind |-> k, whole |-> NoneInt, num |-> NoneInt, den |-> NoneInt,
     unit |-> ""]
Number(w, n, d, u) ==
    [kind |-> "num", whole |-> w, num |-> n, den |-> d, unit |-> u]
Chest == Word("chest")
Length == Word("length")
Gap == Word("gap")
Nl == Word("nl")
X == Word("x")
N24 == Number(24, NoneInt, NoneInt, "")
N31 == Number(31, NoneInt, NoneInt, "")
N70cm == Number(70, NoneInt, NoneInt, "cm")
F19Half == Number(19, 1, 2, "")
F19Zero == Number(19, 1, 0, "")
Tokens == {Chest, Length, Gap, Nl, X, N24, N31, N70cm, F19Half, F19Zero}
IsNum(t) == t.kind = "num"
\* the numbers the pair pattern's \d+(?:\.\d+)? takes whole
PlainNumbers == {t \in Tokens : IsNum(t) /\ t.den = NoneInt}

\* the characters a word puts between a label and the number after it
Width(t) ==
    CASE t.kind = "chest" -> 7
      [] t.kind = "length" -> 8
      [] t.kind = "gap" -> 14
      [] t.kind = "nl" -> 1
      [] t.kind = "x" -> 3
      [] OTHER -> 0
\* the ": " a label token ends with
LabelSep == 2
\* [^0-9]{0,10}
MaxGap == 10

\* to_inches(m.group("val"), m.group("unit") or "") for NUM UNIT on a token
ValOf(t) == ToInches(NumStr(t.whole, t.num, t.den, ""), t.unit)
\* group "w" of RE_PAIR_X ends at the x: of "19 1/2 " it is the "2"
WOf(t) ==
    IF t.den # NoneInt
    THEN ToInches(NumStr(t.den, NoneInt, NoneInt, ""), "")
    ELSE ToInches(NumStr(t.whole, NoneInt, NoneInt, ""), t.unit)
\* group "l" of RE_PAIR_X starts after the x: of "19 1/2 " it is the "19"
LOf(t) ==
    ToInches(NumStr(t.whole, NoneInt, NoneInt, ""),
             IF t.den # NoneInt THEN "" ELSE t.unit)

RECURSIVE NextNum(_, _)
\* the first number token at or after position j, Len + 1 if there is none
NextNum(txt, j) ==
    IF j > Len(txt) THEN j
    ELSE IF IsNum(txt[j]) THEN j
    ELSE NextNum(txt, j + 1)

RECURSIVE GapWidth(_, _, _)
\* the characters of the tokens between positions i and j
GapWidth(txt, i, j) ==
    IF i + 1 >= j THEN 0 ELSE Width(txt[i + 1]) + GapWidth(txt, i + 1, j)

RECURSIVE LabeledFrom(_, _, _)
\* [to_inches(...) for m in RE.finditer(t)] from position i on: a label
\* followed within 10 non-digit characters by a number; the scan goes on
\* behind each match
LabeledFrom(txt, label, i) ==
    IF i > Len(txt) THEN << >>
    ELSE LET j == NextNum(txt, i + 1)
         IN IF /\ txt[i].kind = label
               /\ j <= Len(txt)
               /\ LabelSep + GapWidth(txt, i, j) <= MaxGap
            THEN <<ValOf(txt[j])>> \o LabeledFrom(txt, label, j + 1)
            ELSE LabeledFrom(txt, label, i + 1)

RECURSIVE SkipNl(_, _)
\* \s* over line breaks
SkipNl(txt, j) ==
    IF j <= Len(txt) /\ txt[j].kind = "nl" THEN SkipNl(txt, j + 1) ELSE j

\* the pair kept in the order it was written
PairOrder_NoSwap(w, l) == <<w, l>>

\* "if l < w: w, l = l, w"
PairOrder(w, l) == IF l < w THEN <<l, w>> ELSE <<w, l>>

RECURSIVE PairsFrom(_, _)
\* the (w, l) of each RE_PAIR_X match from position i on; behind a match
\* the scan goes on after group "l", which leaves the fraction of a mixed
\* number to be the "w" of a next match
PairsFrom(txt, i) ==
    IF i > Len(txt) THEN << >>
    ELSE LET j == SkipNl(txt, i + 1)
             k == SkipNl(txt, j + 1)
         IN IF /\ IsNum(txt[i])
               /\ j <= Len(txt) /\ txt[j].kind = "x"
               /\ k <= Len(txt) /\ IsNum(txt[k])
            THEN <<PairOrder(WOf(txt[i]), LOf(txt[k]))>>
                 \o PairsFrom(txt, IF txt[k].den # NoneInt THEN k ELSE k + 1)
            ELSE PairsFrom(txt, i + 1)

RECURSIVE FirstKind(_, _, _)
\* the first token of the kind at or after position i, Len + 1 if none
FirstKind(txt, kind, i) ==
    IF i > Len(txt) THEN i
    ELSE IF txt[i].kind = kind THEN i
    ELSE FirstKind(txt, kind, i + 1)

\* sp.search(line) / sl.search(line) and the guarded to_inches: the first
\* number behind the first label of the line, NoneInt when there is none or
\* when to_inches raised ("except Exception: pass")
LineSearch(line, label) ==
    LET i == FirstKind(line, label, 1)
        j == NextNum(line, i + 1)
    IN IF i <= Len(line) /\ j <= Len(line)
       THEN (IF ValOf(line[j]) = Raised THEN NoneInt ELSE ValOf(line[j]))
       ELSE NoneInt

RECURSIVE Fallback(_, _, _, _)
\* "if p2p is None or length is None: for line in t.splitlines(): ..." from
\* the line that starts at position a on
Fallback(txt, a, p2p, length) ==
    IF a > Len(txt) \/ (p2p # NoneInt /\ length # NoneInt)
    THEN [p2p |-> p2p, length |-> length]
    ELSE LET b == FirstKind(txt, "nl", a)
             line == SubSeq(txt, a, b - 1)
         IN Fallback(txt, b + 1,
                     IF p2p = NoneInt THEN LineSearch(line, "chest") ELSE p2p,
                     IF length = NoneInt THEN LineSearch(line, "length")
                     ELSE length)

\* no extract_tops call has returned
NoResult ==
    [done |-> FALSE, raised |-> FALSE, p2p |-> NoneInt, length |-> NoneInt]

\* an extraction that puts the pair values before the labelled ones
ExtractTops_PairsFirst(txt) ==
    LET p2p_labeled == LabeledFrom(txt, "chest", 1)
        len_labeled == LabeledFrom(txt, "length", 1)
        pairs == PairsFrom(txt, 1)
        p2p_vals == [k \in 1 .. Len(pairs) |-> pairs[k][1]] \o p2p_labeled
        len_vals == [k \in 1 .. Len(pairs) |-> pairs[k][2]] \o len_labeled
        first == Fallback(txt, 1,
                          IF p2p_vals # << >> THEN p2p_vals[1] ELSE NoneInt,
                          IF len_vals # << >> THEN len_vals[1] ELSE NoneInt)
    IN IF \/ \E k \in 1 .. Len(p2p_labeled) : p2p_labeled[k] = Raised
          \/ \E k \in 1 .. Len(len_labeled) : len_labeled[k] = Raised
       THEN [done |-> TRUE, raised |-> TRUE, p2p |-> NoneInt,
             length |-> NoneInt]
       ELSE [done |-> TRUE, raised |-> FALSE, p2p |-> first.p2p,
             length |-> first.length]

\* extract_tops(text): the two label scans, whose to_inches calls are not
\* guarded, then the pairs, then the first value of each list, then the
\* line-by-line fallback
ExtractTops(txt) ==
    LET p2p_labeled == LabeledFrom(txt, "chest", 1)
        len_labeled == LabeledFrom(txt, "length", 1)
        pairs == PairsFrom(txt, 1)
        p2p_vals == p2p_labeled \o [k \in 1 .. Len(pairs) |-> pairs[k][1]]
        len_vals == len_labeled \o [k \in 1 .. Len(pairs) |-> pairs[k][2]]
        first == Fallback(txt, 1,
                          IF p2p_vals # << >> THEN p2p_vals[1] ELSE NoneInt,
                          IF len_vals # << >> THEN len_vals[1] ELSE NoneInt)
    IN IF \/ \E k \in 1 .. Len(p2p_labeled) : p2p_labeled[k] = Raised
          \/ \E k \in 1 .. Len(len_labeled) : len_labeled[k] = Raised
       THEN [done |-> TRUE, raised |-> TRUE, p2p |-> NoneInt,
             length |-> NoneInt]
       ELSE [done |-> TRUE, raised |-> FALSE, p2p |-> first.p2p,
             length |-> first.length]

\* the descriptions given to extract_tops here
Texts == UNION {[1 .. n -> Tokens] : n \in 0 .. MaxTokens}
\* the number strings and units given to to_inches here
ConvNumbers ==
    {NumStr(19, NoneInt, NoneInt, ""), NumStr(19, 1, 2, ""),
     NumStr(19, 1, 0, ""), NumStr(NoneInt, 1, 2, ""),
     NumStr(NoneInt, NoneInt, NoneInt, "")}
ConvUnits == {"", "cm", "in", "mm"}
\* no to_inches call is asked for
NoConv ==
    [asked |-> FALSE, done |-> FALSE,
     num |-> NumStr(NoneInt, NoneInt, NoneInt, ""), unit |-> "",
     direct |-> NoneInt, glued |-> NoneInt]

(* ----------------------- collect_listing_links ------------------------- *)
\* an href that is empty or None
NoHref == 0
\* the listing urls a page shows here
Urls == 1 .. MaxLinks + 1
\* the hrefs the selectors of one scan pass give, in order: up to MaxLinks
\* of them, with repeats and empty ones (a selector that raised gives none)
Hrefs == UNION {[1 .. n -> {NoHref} \cup Urls] : n \in 0 .. MaxLinks}
\* max_scrolls values of the call
CollectMaxScrolls == 0 .. 3
\* max_links values of the call; 0 stands for None
CollectMaxLinks == (0 - 1) .. 2
\* "last_count = -1"
NoCount == 0 - 1

\* no collect_listing_links call is made
NoCollect ==
    [on |-> FALSE, at |-> "returned", seen |-> {}, ordered |-> << >>,
     last_count |-> NoCount, passes |-> 0, max_scrolls |-> 0,
     max_links |-> 0, hrefs |-> << >>, by_limit |-> FALSE]

\* a link limit that is never reached
LimitReached_Never(n, max_links) == FALSE

\* "if max_links and len(seen) >= max_links"
LimitReached(n, max_links) == max_links # 0 /\ n >= max_links

RECURSIVE AddHrefs(_, _, _, _)
\* "for href in hrefs: ..." from position i on: an empty or seen href is
\* skipped, a new one is added to seen and ordered, and the function
\* returns as soon as the limit is reached
AddHrefs(acc, h, i, max_links) ==
    IF i > Len(h) THEN acc
    ELSE IF h[i] = NoHref \/ h[i] \in acc.seen
         THEN AddHrefs(acc, h, i + 1, max_links)
         ELSE LET more == [seen |-> acc.seen \cup {h[i]},
                           ordered |-> Append(acc.ordered, h[i]),
                           by_limit |-> LimitReached(
                               Cardinality(acc.seen \cup {h[i]}), max_links)]
              IN IF more.by_limit THEN more
                 ELSE AddHrefs(more, h, i + 1, max_links)

\* one turn of "for _ in range(max_scrolls)": the selectors' hrefs are
\* added, the page is scrolled, and the loop is left when the number of
\* links is what it was after the turn before
ScanPass(h) ==
    /\ cl.on
    /\ cl.at = "pass"
    /\ cl.passes < cl.max_scrolls
    /\ LET r == AddHrefs([seen |-> cl.seen, ordered |-> cl.ordered,
                          by_limit |-> FALSE], h, 1, cl.max_links)
           n == Cardinality(r.seen)
       IN cl' = [cl EXCEPT !.seen = r.seen,
                           !.ordered = r.ordered,
                           !.hrefs = h,
                           !.passes = @ + 1,
                           !.by_limit = r.by_limit,
                           !.at = IF r.by_limit \/ n = cl.last_count
                                  THEN "returned" ELSE "pass",
                           !.last_count = IF r.by_limit \/ n = cl.last_count
                                          THEN @ ELSE n]
    /\ UNCHANGED <<reqVars, fault, cancel_resp, cancel_again, item, set_at,
                   text, extracted, conv, other, flags, pc, cpc, connected,
                   queue, emitted, sent, loopVars, sessVars, unregistered>>

\* range(max_scrolls) is used up: "return ordered"
ScanEnd ==
    /\ cl.on
    /\ cl.at = "pass"
    /\ cl.passes >= cl.max_scrolls
    /\ cl' = [cl EXCEPT !.at = "returned"]
    /\ UNCHANGED <<reqVars, fault, cancel_resp, cancel_again, item, set_at,
                   text, extracted, conv, other, flags, pc, cpc, connected,
                   queue, emitted, sent, loopVars, sessVars, unregistered>>

(* ------------------------------ Init ----------------------------------- *)
\* the state of the process before the request is handled
RunInit ==
    /\ flags = << >>
    /\ pc = "not_started"
    /\ cpc = "request"
    /\ connected = TRUE
    /\ queue = << >>
    /\ emitted = << >>
    /\ sent = << >>
    /\ links = << >>
    /\ idx = 0
    /\ matches = 0
    /\ processed = 0
    /\ fetched = << >>
    /\ outcomes = << >>
    /\ session = [pw |-> "none", browser |-> "none", ctx |-> "none"]
    /\ releases = [pw |-> 0, browser |-> 0, ctx |-> 0]
    /\ unregistered = 0
    /\ fault = "none"
    /\ cancel_resp = NoResponse
    /\ cancel_again = FALSE
    /\ item = NoItem
    /\ set_at = NoneInt

\* the parser is not called on its own
NoProbe ==
    /\ text = << >>
    /\ extracted = NoResult
    /\ conv = NoConv
    /\ cl = NoCollect
    /\ other = "none"

\* any request; the measurements are left open (no targets are tracked and
\* Fetch takes any outcome), and so is the seller, which only chooses the
\* landing url
Init ==
    /\ category \in Categories
    /\ seller = ""
    /\ search_id \in SearchIds
    /\ \E mi \in PayloadMaxItems :
          max_items = IF mi = 0 THEN DefaultMaxItems ELSE mi
    /\ target_p2p = NoneInt
    /\ target_length = NoneInt
    /\ tol = DefaultTol
    /\ tol_fields = [p2p |-> DefaultTol, length |-> DefaultTol]
    /\ RunInit
    /\ NoProbe

\* a request for the supported category without searchId, with its targets
\* and tolerance fields
FilterInit ==
    /\ category = "tops"
    /\ search_id = ""
    /\ seller \in Sellers
    /\ max_items = DefaultMaxItems
    /\ target_p2p \in PayloadTargets
    /\ target_length \in PayloadTargets
    /\ \E t \in PayloadTols : tol = IF t = 0 THEN DefaultTol ELSE t
    /\ tol_fields \in [p2p : TolFieldValues, length : TolFieldValues]
    /\ RunInit
    /\ NoProbe

(* -------------------------- request handler ---------------------------- *)
\* the handler with the flag registered before the category test
HandleRequest_RegisterFirst ==
    /\ cpc = "request"
    /\ flags' = IF search_id # "" THEN FlagSet(flags, search_id, FALSE)
                ELSE flags
    /\ cpc' = IF category # "tops" THEN "empty_preamble" ELSE "start"
    /\ TrackSetAt
    /\ UNCHANGED <<reqVars, fault, cancel_resp, cancel_again, item, probeVars, pc, connected,
                   queue, emitted, sent, loopVars, sessVars, unregistered>>

\* search_stream up to "return StreamingResponse(...)": an unsupported
\* category is answered by empty_gen, otherwise the flag is registered
HandleRequest ==
    /\ cpc = "request"
    /\ IF category # "tops"
       THEN /\ cpc' = "empty_preamble"
            /\ flags' = flags
       ELSE /\ cpc' = "start"
            /\ flags' = IF search_id # "" THEN FlagSet(flags, search_id, FALSE)
                        ELSE flags
    /\ TrackSetAt
    /\ UNCHANGED <<reqVars, fault, cancel_resp, cancel_again, item, probeVars, pc, connected,
                   queue, emitted, sent, loopVars, sessVars, unregistered>>

\* empty_gen: yield SSE_PREAMBLE
EmptyPreamble ==
    /\ cpc = "empty_preamble"
    /\ cpc' = "empty_done"
    /\ emitted' = Append(emitted, SSE_PREAMBLE)
    /\ sent' = Append(sent, SSE_PREAMBLE)
    /\ UNCHANGED <<reqVars, obsVars, flags, pc, connected, queue, loopVars, sessVars,
                   unregistered>>

\* empty_gen: yield _sse({"type": "done"})
EmptyDone ==
    /\ cpc = "empty_done"
    /\ cpc' = "closed"
    /\ emitted' = Append(emitted, EmptyDoneEv)
    /\ sent' = Append(sent, EmptyDoneEv)
    /\ UNCHANGED <<reqVars, obsVars, flags, pc, connected, queue, loopVars, sessVars,
                   unregistered>>

\* async_generator: worker_thread.start()
StartStream ==
    /\ cpc = "start"
    /\ cpc' = "poll"
    /\ pc' = "preamble"
    /\ UNCHANGED <<reqVars, obsVars, flags, connected, queue, emitted, sent, loopVars,
                   sessVars, unregistered>>

(* ------------------------------ producer ------------------------------- *)
\* one "yield chunk" of generator, put on the queue by sync_worker
DataMsg(ev) == [kind |-> "data", data |-> ev]
\* result_queue.put(('done', None))
DoneMsg == [kind |-> "done", data |-> SSE_PREAMBLE]

\* a queue of capacity 2: put waits while the queue is full
Yield_Bounded(ev) ==
    /\ Len(queue) < 2
    /\ emitted' = Append(emitted, ev)
    /\ queue' = Append(queue, DataMsg(ev))

\* the generator yields a chunk and sync_worker puts it on result_queue, a
\* queue.Queue() without maxsize: put never waits
Yield(ev) ==
    /\ emitted' = Append(emitted, ev)
    /\ queue' = Append(queue, DataMsg(ev))

EmitPreamble ==
    /\ pc = "preamble"
    /\ Yield(SSE_PREAMBLE)
    /\ pc' = "hello"
    /\ UNCHANGED <<reqVars, obsVars, flags, cpc, connected, sent, loopVars, sessVars,
                   unregistered>>

EmitHello ==
    /\ pc = "hello"
    /\ Yield(HelloEv)
    /\ pc' = "session"
    /\ UNCHANGED <<reqVars, obsVars, flags, cpc, connected, sent, loopVars, sessVars,
                   unregistered>>

\* how far session creation gets: 0 sync_playwright() raises, 1 launch
\* raises, 2 new_context raises, 3 new_page raises, 4 all of it succeeds
SessionStages == 0 .. 4
SessionAfter(stage) ==
    [pw      |-> IF stage >= 1 THEN "open" ELSE "none",
     browser |-> IF stage >= 2 THEN "open" ELSE "none",
     ctx     |-> IF stage >= 3 THEN "open" ELSE "none"]

\* with sync_playwright() as pw: launch, new_context, new_page
StartSession ==
    /\ pc = "session"
    /\ \E stage \in SessionStages :
          /\ session' = SessionAfter(stage)
          /\ pc' = IF stage = 0 THEN "emit_error"
                   ELSE IF stage < 4 THEN "unwind" ELSE "goto"
          /\ fault' = IF stage < 4 THEN "session" ELSE fault
    /\ UNCHANGED <<reqVars, cancel_resp, cancel_again, item, set_at, probeVars, flags, cpc, connected, queue, emitted, sent,
                   loopVars, releases, unregistered>>

\* the landing step with the progress event sent before the navigation
Landing_ProgressFirst ==
    /\ pc = "goto"
    /\ Yield(LandingEv)
    /\ \/ /\ pc' = "unwind"
          /\ fault' = "landing"
       \/ /\ pc' = "collect"
          /\ fault' = fault
    /\ UNCHANGED <<reqVars, cancel_resp, cancel_again, item, set_at, probeVars, flags, cpc,
                   connected, sent, loopVars, sessVars, unregistered>>

\* page.goto(search_url) .. remove_sold_sections, then the landing progress
\* event; a navigation fault leaves the with block
Landing ==
    /\ pc = "goto"
    /\ \/ /\ pc' = "unwind"
          /\ fault' = "landing"
          /\ UNCHANGED <<queue, emitted>>
       \/ /\ Yield(LandingEv)
          /\ pc' = "collect"
          /\ fault' = fault
    /\ UNCHANGED <<reqVars, cancel_resp, cancel_again, item, set_at, probeVars, flags, cpc, connected, sent, loopVars, sessVars,
                   unregistered>>

\* the link collection returning the first link once per anchor found
Collect_Duplicates ==
    /\ pc = "collect"
    /\ \/ /\ pc' = "unwind"
          /\ fault' = "collect"
          /\ UNCHANGED <<queue, emitted, links>>
       \/ \E n \in 0 .. MaxLinks :
             /\ links' = [k \in 1 .. n |-> 1]
             /\ Yield(MetaEv(n))
             /\ pc' = "loop"
             /\ fault' = fault
    /\ UNCHANGED <<reqVars, cancel_resp, cancel_again, item, set_at, probeVars,
                   flags, cpc, connected, sent, idx, matches, processed,
                   fetched, outcomes, sessVars, unregistered>>

\* links = collect_listing_links(...); total = len(links); the meta event
Collect ==
    /\ pc = "collect"
    /\ \/ /\ pc' = "unwind"
          /\ fault' = "collect"
          /\ UNCHANGED <<queue, emitted, links>>
       \/ \E n \in 0 .. MaxLinks :
             /\ links' = [k \in 1 .. n |-> k]
             /\ Yield(MetaEv(n))
             /\ pc' = "loop"
             /\ fault' = fault
    /\ UNCHANGED <<reqVars, cancel_resp, cancel_again, item, set_at, probeVars, flags, cpc, connected, sent, idx, matches,
                   processed, fetched, outcomes, sessVars, unregistered>>

\* the loop head with the flag read moved in front of the loop test
LoopHead_CheckFirst ==
    /\ pc = "loop"
    /\ IF IsCancelled
       THEN /\ Yield(CancelledEv)
            /\ pc' = "emit_done"
            /\ UNCHANGED idx
       ELSE IF idx >= Len(links)
       THEN /\ pc' = "emit_done"
            /\ UNCHANGED <<queue, emitted, idx>>
       ELSE /\ pc' = "fetch"
            /\ idx' = idx + 1
            /\ UNCHANGED <<queue, emitted>>
    /\ UNCHANGED <<reqVars, obsVars, flags, cpc, connected, sent, links,
                   matches, processed, fetched, outcomes, sessVars,
                   unregistered>>

\* the loop head with the "break" after the cancelled event left out
LoopHead_NoBreak ==
    /\ pc = "loop"
    /\ IF idx >= Len(links)
       THEN /\ pc' = "emit_done"
            /\ UNCHANGED <<queue, emitted, idx>>
       ELSE /\ IF IsCancelled THEN Yield(CancelledEv)
                              ELSE UNCHANGED <<queue, emitted>>
            /\ pc' = "fetch"
            /\ idx' = idx + 1
    /\ UNCHANGED <<reqVars, obsVars, flags, cpc, connected, sent, links, matches,
                   processed, fetched, outcomes, sessVars, unregistered>>

\* head of "for i, url in enumerate(links)" with the cancellation check
LoopHead ==
    /\ pc = "loop"
    /\ IF idx >= Len(links)
       THEN /\ pc' = "emit_done"
            /\ UNCHANGED <<queue, emitted, idx>>
       ELSE IF IsCancelled
       THEN /\ Yield(CancelledEv)
            /\ pc' = "emit_done"
            /\ UNCHANGED idx
       ELSE /\ pc' = "fetch"
            /\ idx' = idx + 1
            /\ UNCHANGED <<queue, emitted>>
    /\ UNCHANGED <<reqVars, obsVars, flags, cpc, connected, sent, links, matches,
                   processed, fetched, outcomes, sessVars, unregistered>>

\* the maxItems check written with > in place of >=
ReachedMaxItems_Strict(m) == m > max_items

\* "if matches >= max_items: break"
ReachedMaxItems(m) == m >= max_items

\* one unit of work whose failed fetch sends no progress event
FetchOutcome_NoneSilent(o) ==
    /\ pc = "fetch"
    /\ fetched' = Append(fetched, links[idx])
    /\ outcomes' = Append(outcomes, o)
    /\ CASE o = "none" ->
                    /\ processed' = processed + 1
                    /\ pc' = "loop"
                    /\ UNCHANGED <<matches, queue, emitted>>
               [] o = "raise" ->
                    /\ processed' = processed + 1
                    /\ pc' = "loop"
                    /\ UNCHANGED <<matches, queue, emitted>>
               [] o = "nomatch" ->
                    /\ pc' = "progress"
                    /\ UNCHANGED <<matches, processed, queue, emitted>>
               [] o = "match" ->
                    /\ Yield(MatchEv)
                    /\ pc' = "progress"
                    /\ UNCHANGED <<matches, processed>>
    /\ UNCHANGED <<reqVars, fault, cancel_resp, cancel_again, set_at, probeVars,
                   flags, cpc,
                   connected, sent, links, idx, sessVars, unregistered>>

\* parse_listing(page, url), extract_tops, the within checks, the match
\* event; after a match the generator rests at the yield of the match event,
\* before "matches += 1"
FetchOutcome(o) ==
    /\ pc = "fetch"
    /\ fetched' = Append(fetched, links[idx])
    /\ outcomes' = Append(outcomes, o)
    /\ CASE o = "none" ->
                    /\ processed' = processed + 1
                    /\ Yield(ParsingProgressEv(processed + 1, Len(links), matches))
                    /\ pc' = "loop"
                    /\ UNCHANGED matches
               [] o = "raise" ->
                    /\ processed' = processed + 1
                    /\ pc' = "loop"
                    /\ UNCHANGED <<matches, queue, emitted>>
               [] o = "nomatch" ->
                    /\ pc' = "progress"
                    /\ UNCHANGED <<matches, processed, queue, emitted>>
               [] o = "match" ->
                    /\ Yield(MatchEv)
                    /\ pc' = "progress"
                    /\ UNCHANGED <<matches, processed>>
    /\ UNCHANGED <<reqVars, fault, cancel_resp, cancel_again, set_at, probeVars,
                   flags, cpc,
                   connected, sent, links, idx, sessVars, unregistered>>

\* within with the test for an absent value put first
Within_ValueFirst(val, target, t) ==
    IF val = NoneInt THEN FALSE
    ELSE IF target = NoneInt THEN TRUE
    ELSE (IF val >= target THEN val - target ELSE target - val) <= t

\* parser.within(val, target, tol)
Within(val, target, t) ==
    IF target = NoneInt THEN TRUE
    ELSE IF val = NoneInt THEN FALSE
    ELSE (IF val >= target THEN val - target ELSE target - val) <= t

\* the match test with "or" in place of "and"
IsMatch_Either(w, L) ==
    Within(w, target_p2p, tol) \/ Within(L, target_length, tol)

\* "if parser.within(w, target_p2p, tol) and parser.within(L, target_length, tol)"
IsMatch(w, L) == Within(w, target_p2p, tol) /\ Within(L, target_length, tol)

\* one unit of work with the measurements extract_tops returns
FetchMeasured ==
    \/ /\ FetchOutcome("none")
       /\ item' = item
    \/ /\ FetchOutcome("raise")
       /\ item' = item
    \/ \E w \in Measures, L \in Measures, sc \in SoldCounts :
          /\ FetchOutcome(IF IsMatch(w, L) THEN "match" ELSE "nomatch")
          /\ item' = [p2p |-> w, length |-> L, sold |-> sc, parsed |-> TRUE]

\* one unit of work with the measurements left open: any outcome
Fetch ==
    /\ \E o \in Outcomes : FetchOutcome(o)
    /\ item' = item

\* the unit of work being finished emitted a match event
AfterMatch == outcomes # << >> /\ outcomes[Len(outcomes)] = "match"

\* the per-item step with the progress event left out
Progress_Silent ==
    /\ pc = "progress"
    /\ matches' = IF AfterMatch THEN matches + 1 ELSE matches
    /\ processed' = processed + 1
    /\ pc' = IF ReachedMaxItems(matches') THEN "emit_done" ELSE "loop"
    /\ UNCHANGED <<reqVars, obsVars, flags, cpc, connected, queue, emitted, sent,
                   links, idx, fetched, outcomes, sessVars, unregistered>>

\* the per-item step that drops its progress event once the flag is set
Progress_StopOnCancel ==
    /\ pc = "progress"
    /\ matches' = IF AfterMatch THEN matches + 1 ELSE matches
    /\ processed' = processed + 1
    /\ IF IsCancelled THEN UNCHANGED <<queue, emitted>>
       ELSE Yield(ProgressEv(processed + 1, Len(links), matches'))
    /\ pc' = IF ReachedMaxItems(matches') THEN "emit_done" ELSE "loop"
    /\ UNCHANGED <<reqVars, obsVars, flags, cpc, connected, sent, links, idx,
                   fetched, outcomes, sessVars, unregistered>>

\* "matches += 1" after a match, processed += 1, the per-item progress
\* event, the maxItems check
Progress ==
    /\ pc = "progress"
    /\ matches' = IF AfterMatch THEN matches + 1 ELSE matches
    /\ processed' = processed + 1
    /\ Yield(ProgressEv(processed + 1, Len(links), matches'))
    /\ pc' = IF ReachedMaxItems(matches') THEN "emit_done" ELSE "loop"
    /\ UNCHANGED <<reqVars, obsVars, flags, cpc, connected, sent, links, idx,
                   fetched, outcomes, sessVars, unregistered>>

\* the end of the loop with the done event left out
EmitDone_Silent ==
    /\ pc = "emit_done"
    /\ pc' = "close"
    /\ UNCHANGED <<reqVars, obsVars, flags, cpc, connected, queue, emitted, sent,
                   loopVars, sessVars, unregistered>>

\* the event after the loop chosen by a second read of the flag
EmitDone_CancelAware ==
    /\ pc = "emit_done"
    /\ Yield(IF IsCancelled THEN CancelledEv ELSE DoneEv)
    /\ pc' = "close"
    /\ UNCHANGED <<reqVars, obsVars, flags, cpc, connected, sent, loopVars,
                   sessVars, unregistered>>

\* after the loop: yield done
EmitDone ==
    /\ pc = "emit_done"
    /\ Yield(DoneEv)
    /\ pc' = "close"
    /\ UNCHANGED <<reqVars, obsVars, flags, cpc, connected, sent, loopVars, sessVars,
                   unregistered>>

Resources == {"pw", "browser", "ctx"}

\* ctx.close(); browser.close()
CloseSession ==
    /\ pc = "close"
    /\ session' = [session EXCEPT !.ctx = "closed", !.browser = "closed"]
    /\ releases' = [releases EXCEPT !.ctx = @ + 1, !.browser = @ + 1]
    /\ pc' = "exit_with"
    /\ UNCHANGED <<reqVars, obsVars, flags, cpc, connected, queue, emitted, sent,
                   loopVars, unregistered>>

\* session handling without the with statement: nothing is stopped
StopPlaywright_Leak(s) == s

\* __exit__ of "with sync_playwright()": the driver stops and takes every
\* browser and context that is still open with it
StopPlaywright(s) ==
    [r \in Resources |-> IF s[r] = "open" THEN "closed" ELSE s[r]]

LeaveWith ==
    /\ session' = StopPlaywright(session)
    /\ releases' = [r \in Resources |->
                      releases[r] + IF session'[r] # session[r] THEN 1 ELSE 0]

\* the with block is left normally, after done
ExitWith ==
    /\ pc = "exit_with"
    /\ LeaveWith
    /\ pc' = "finally"
    /\ UNCHANGED <<reqVars, obsVars, flags, cpc, connected, queue, emitted, sent,
                   loopVars, unregistered>>

\* the with block is left by an exception
Unwind ==
    /\ pc = "unwind"
    /\ LeaveWith
    /\ pc' = "emit_error"
    /\ UNCHANGED <<reqVars, obsVars, flags, cpc, connected, queue, emitted, sent,
                   loopVars, unregistered>>

\* the except block without its error event
EmitError_Silent ==
    /\ pc = "emit_error"
    /\ pc' = "emit_error_done"
    /\ UNCHANGED <<reqVars, obsVars, flags, cpc, connected, queue, emitted, sent,
                   loopVars, sessVars, unregistered>>

\* except Exception: yield error
EmitError ==
    /\ pc = "emit_error"
    /\ Yield(ErrorEv)
    /\ pc' = "emit_error_done"
    /\ UNCHANGED <<reqVars, obsVars, flags, cpc, connected, sent, loopVars, sessVars,
                   unregistered>>

\* except Exception: yield done
EmitErrorDone ==
    /\ pc = "emit_error_done"
    /\ Yield(DoneEv)
    /\ pc' = "finally"
    /\ UNCHANGED <<reqVars, obsVars, flags, cpc, connected, sent, loopVars, sessVars,
                   unregistered>>

\* finally: if search_id and search_id in CANCEL_FLAGS: del ...
Finally ==
    /\ pc = "finally"
    /\ IF search_id # "" /\ search_id \in DOMAIN flags
       THEN /\ flags' = FlagDel(flags, search_id)
            /\ unregistered' = unregistered + 1
       ELSE UNCHANGED <<flags, unregistered>>
    /\ pc' = "sentinel"
    /\ TrackSetAt
    /\ UNCHANGED <<reqVars, fault, cancel_resp, cancel_again, item, probeVars, cpc, connected,
                   queue, emitted, sent, loopVars, sessVars>>

\* a worker thread that ends without putting the sentinel
Sentinel_Silent ==
    /\ pc = "sentinel"
    /\ pc' = "finished"
    /\ UNCHANGED <<reqVars, obsVars, flags, cpc, connected, queue, emitted,
                   sent, loopVars, sessVars, unregistered>>

\* sync_worker: result_queue.put(('done', None)); the thread ends.  The
\* generator catches every Exception itself, so sync_worker's except branch
\* and the consumer's 'error' dispatch are never taken
Sentinel ==
    /\ pc = "sentinel"
    /\ queue' = Append(queue, DoneMsg)
    /\ pc' = "finished"
    /\ UNCHANGED <<reqVars, obsVars, flags, cpc, connected, emitted, sent, loopVars,
                   sessVars, unregistered>>

ProducerNext ==
    \/ EmitPreamble \/ EmitHello \/ StartSession \/ Landing \/ Collect
    \/ LoopHead \/ Fetch \/ Progress \/ EmitDone \/ CloseSession \/ ExitWith
    \/ Unwind \/ EmitError \/ EmitErrorDone \/ Finally \/ Sentinel

(* ------------------------------ consumer ------------------------------- *)
\* the disconnect check that breaks without setting the flag
ConsumerPoll_NoFlag ==
    /\ cpc = "poll"
    /\ cpc' = IF ~connected THEN "disconnected" ELSE "get"
    /\ UNCHANGED <<reqVars, obsVars, flags, pc, connected, queue, emitted, sent,
                   loopVars, sessVars, unregistered>>

\* "if await request.is_disconnected(): CANCEL_FLAGS[search_id] = True; break"
\* (an exception of is_disconnected is swallowed and reads as "connected")
ConsumerPoll ==
    /\ cpc = "poll"
    /\ IF ~connected
       THEN /\ flags' = FlagSet(flags, search_id, TRUE)
            /\ cpc' = "disconnected"
       ELSE /\ cpc' = "get"
            /\ flags' = flags
    /\ TrackSetAt
    /\ UNCHANGED <<reqVars, fault, cancel_resp, cancel_again, item, probeVars, pc, connected,
                   queue, emitted, sent, loopVars, sessVars, unregistered>>

\* a queue read that takes the newest entry (LIFO)
QueueGet_Newest(q) == q[Len(q)]

\* result_queue.get_nowait(): the oldest entry
QueueGet(q) == Head(q)
QueueRest(q) == Tail(q)

\* the inner polling loop and the dispatch on msg_type; while the queue is
\* empty and the worker is alive the loop only sleeps
ConsumerGet ==
    /\ cpc = "get"
    /\ IF queue # << >>
       THEN /\ queue' = QueueRest(queue)
            /\ IF QueueGet(queue).kind = "done"
               THEN /\ cpc' = "closed"
                    /\ sent' = sent
               ELSE /\ sent' = Append(sent, QueueGet(queue).data)
                    /\ cpc' = "poll"
       ELSE /\ pc = "finished"
            /\ cpc' = "closed"
            /\ UNCHANGED <<queue, sent>>
    /\ UNCHANGED <<reqVars, obsVars, flags, pc, connected, emitted, loopVars, sessVars,
                   unregistered>>

ConsumerNext == ConsumerPoll \/ ConsumerGet

(* ---------------------------- environment ------------------------------ *)
\* the client closes the connection while the response is open
ClientDisconnect ==
    /\ connected
    /\ cpc \notin {"closed", "disconnected"}
    /\ connected' = FALSE
    /\ UNCHANGED <<reqVars, obsVars, flags, pc, cpc, queue, emitted, sent, loopVars,
                   sessVars, unregistered>>

\* cancel_stream(payload) with payload["searchId"] = id, its response
\* recorded
CancelObserved(id) ==
    /\ flags' = CancelEffect(flags, id)
    /\ cancel_resp' = CancelResponse(id)
    /\ cancel_again' = FlagGet(flags, id)
    /\ TrackSetAt
    /\ UNCHANGED <<reqVars, fault, item, probeVars, pc, cpc, connected, queue,
                   emitted, sent, loopVars, sessVars, unregistered>>

\* cancel_stream(payload) with payload["searchId"] = id, its response left
\* aside: an empty id is answered with an error and a repeated call writes
\* True over True, so only the calls that change CANCEL_FLAGS are steps
CancelCall(id) ==
    /\ flags' = CancelEffect(flags, id)
    /\ flags' # flags
    /\ TrackSetAt
    /\ UNCHANGED <<reqVars, fault, cancel_resp, cancel_again, item, probeVars, pc, cpc,
                   connected, queue, emitted, sent, loopVars, sessVars,
                   unregistered>>

Next ==
    \/ HandleRequest \/ EmptyPreamble \/ EmptyDone \/ StartStream
    \/ EmitPreamble \/ EmitHello \/ StartSession \/ Landing \/ Collect
    \/ LoopHead \/ Fetch \/ Progress \/ EmitDone \/ CloseSession \/ ExitWith
    \/ Unwind \/ EmitError \/ EmitErrorDone \/ Finally \/ Sentinel
    \/ ConsumerPoll \/ ConsumerGet
    \/ ClientDisconnect
    \/ \E id \in CancelIds : CancelCall(id)

Spec == Init /\ [][Next]_vars

\* a run for the supported category with the default maxItems, and cancel
\* calls whose responses are recorded
CancelInit == Init /\ category = "tops" /\ max_items = DefaultMaxItems
CancelNext ==
    \/ HandleRequest \/ StartStream
    \/ EmitPreamble \/ EmitHello \/ StartSession \/ Landing \/ Collect
    \/ LoopHead \/ Fetch \/ Progress \/ EmitDone \/ CloseSession \/ ExitWith
    \/ Unwind \/ EmitError \/ EmitErrorDone \/ Finally \/ Sentinel
    \/ ConsumerPoll \/ ConsumerGet
    \/ ClientDisconnect
    \/ \E id \in CancelIds : CancelObserved(id)
CancelSpec == CancelInit /\ [][CancelNext]_vars

\* the producer of a run alone, with the measurements of each listing
FilterNext ==
    \/ HandleRequest \/ StartStream
    \/ EmitPreamble \/ EmitHello \/ StartSession \/ Landing \/ Collect
    \/ LoopHead \/ FetchMeasured \/ Progress \/ EmitDone \/ CloseSession
    \/ ExitWith \/ Unwind \/ EmitError \/ EmitErrorDone \/ Finally
    \/ Sentinel
FilterSpec == FilterInit /\ [][FilterNext]_vars

\* MeasurementParser on its own: either a description is given to
\* extract_tops, or a number string and a unit are given to to_inches
ParserInit ==
    /\ category = "tops"
    /\ search_id = ""
    /\ seller = ""
    /\ max_items = DefaultMaxItems
    /\ target_p2p = NoneInt
    /\ target_length = NoneInt
    /\ tol = DefaultTol
    /\ tol_fields = [p2p |-> DefaultTol, length |-> DefaultTol]
    /\ RunInit
    /\ extracted = NoResult
    /\ cl = NoCollect
    /\ other = "none"
    /\ \/ /\ text \in Texts
          /\ conv = NoConv
       \/ /\ text = << >>
          /\ \E n \in ConvNumbers, u \in ConvUnits :
                conv = [NoConv EXCEPT !.asked = TRUE, !.num = n, !.unit = u]

\* p2p, length = parser.extract_tops(text)
ExtractStep ==
    /\ ~conv.asked
    /\ ~extracted.done
    /\ extracted' = ExtractTops(text)
    /\ UNCHANGED <<reqVars, fault, cancel_resp, cancel_again, item, set_at,
                   text, conv, cl, other, flags, pc, cpc, connected, queue, emitted,
                   sent, loopVars, sessVars, unregistered>>

\* to_inches(num, unit) and to_inches(num followed by unit, "")
ConvertStep ==
    /\ conv.asked
    /\ ~conv.done
    /\ conv' = [conv EXCEPT !.done = TRUE,
                            !.direct = ToInches(conv.num, conv.unit),
                            !.glued = ToInches(Glue(conv.num, conv.unit), "")]
    /\ UNCHANGED <<reqVars, fault, cancel_resp, cancel_again, item, set_at,
                   text, extracted, cl, other, flags, pc, cpc, connected, queue,
                   emitted, sent, loopVars, sessVars, unregistered>>

ParserNext == ExtractStep \/ ConvertStep
ParserSpec == ParserInit /\ [][ParserNext]_vars

\* collect_listing_links on its own, called on a loaded page
CollectInit ==
    /\ category = "tops"
    /\ search_id = ""
    /\ seller = ""
    /\ max_items = DefaultMaxItems
    /\ target_p2p = NoneInt
    /\ target_length = NoneInt
    /\ tol = DefaultTol
    /\ tol_fields = [p2p |-> DefaultTol, length |-> DefaultTol]
    /\ RunInit
    /\ text = << >>
    /\ extracted = NoResult
    /\ conv = NoConv
    /\ other = "none"
    /\ \E ms \in CollectMaxScrolls, ml \in CollectMaxLinks :
          cl = [NoCollect EXCEPT !.on = TRUE, !.at = "pass",
                                 !.max_scrolls = ms, !.max_links = ml]

CollectNext == (\E h \in Hrefs : ScanPass(h)) \/ ScanEnd
CollectSpec == CollectInit /\ [][CollectNext]_vars

\* a concurrent run with searchId OtherId, seen through its accesses to
\* CANCEL_FLAGS, the one object two runs share.  Its positions: "none" (no
\* such run), "running" (registered; generator and consumer alive), "left"
\* (its consumer saw the disconnect and stopped), "torn" (its generator
\* ran the finally block; the consumer is still alive), "ended" (both
\* have stopped).
\* search_stream of the other request: CANCEL_FLAGS[search_id] = False
OtherRegister ==
    /\ other \in {"none", "ended"}
    /\ flags' = FlagSet(flags, OtherId, FALSE)
    /\ other' = "running"
    /\ TrackSetAt
    /\ UNCHANGED <<reqVars, fault, cancel_resp, cancel_again, item, text,
                   extracted, conv, cl, pc, cpc, connected, queue, emitted,
                   sent, loopVars, sessVars, unregistered>>

\* the other run's consumer: "if await request.is_disconnected():
\* CANCEL_FLAGS[search_id] = True; break"
OtherDisconnect ==
    /\ other \in {"running", "torn"}
    /\ flags' = FlagSet(flags, OtherId, TRUE)
    /\ other' = IF other = "running" THEN "left" ELSE "ended"
    /\ TrackSetAt
    /\ UNCHANGED <<reqVars, fault, cancel_resp, cancel_again, item, text,
                   extracted, conv, cl, pc, cpc, connected, queue, emitted,
                   sent, loopVars, sessVars, unregistered>>

\* the other run's generator: finally: if search_id in CANCEL_FLAGS: del
OtherFinally ==
    /\ other \in {"running", "left"}
    /\ flags' = IF OtherId \in DOMAIN flags THEN FlagDel(flags, OtherId)
                                             ELSE flags
    /\ other' = IF other = "running" THEN "torn" ELSE "ended"
    /\ TrackSetAt
    /\ UNCHANGED <<reqVars, fault, cancel_resp, cancel_again, item, text,
                   extracted, conv, cl, pc, cpc, connected, queue, emitted,
                   sent, loopVars, sessVars, unregistered>>

\* a run with searchId "A" next to a concurrent run with searchId OtherId,
\* and cancel calls for either id
IsolationInit == CancelInit /\ search_id = "A"
IsolationNext ==
    \/ HandleRequest \/ StartStream
    \/ EmitPreamble \/ EmitHello \/ StartSession \/ Landing \/ Collect
    \/ LoopHead \/ Fetch \/ Progress \/ EmitDone \/ CloseSession \/ ExitWith
    \/ Unwind \/ EmitError \/ EmitErrorDone \/ Finally \/ Sentinel
    \/ ConsumerPoll \/ ConsumerGet
    \/ ClientDisconnect
    \/ \E id \in {search_id, OtherId} : CancelCall(id)
    \/ OtherRegister \/ OtherDisconnect \/ OtherFinally
IsolationSpec == IsolationInit /\ [][IsolationNext]_vars

\* the producer thread and the event loop both keep running
FairSpec ==
    /\ Spec
    /\ WF_vars(ProducerNext)
    /\ WF_vars(ConsumerNext)
    /\ WF_vars(HandleRequest \/ EmptyPreamble \/ EmptyDone \/ StartStream)

(* ------------------------- event bookkeeping --------------------------- *)
Terminal == {"done", "cancelled", "error"}
NumType(s, t) == Cardinality({k \in 1 .. Len(s) : s[k].type = t})
HasType(s, t) == \E k \in 1 .. Len(s) : s[k].type = t
HasTerminal(s) == \E k \in 1 .. Len(s) : s[k].type \in Terminal
IsPrefix(s, t) == Len(s) <= Len(t) /\ \A k \in 1 .. Len(s) : s[k] = t[k]
\* the run is over: the producer thread has ended, or empty_gen has
RunOver == pc = "finished" \/ (category # "tops" /\ cpc = "closed")

(* ------------------------------- C1 ------------------------------------ *)
\* C1: every run emits exactly one terminal event (done, cancelled or
\* error) and that event is the last one: a terminal event is never
\* followed by another event, and a finished run has emitted one.
C1_OneTerminalLast ==
    /\ \A k \in 1 .. Len(emitted) :
          emitted[k].type \in Terminal => k = Len(emitted)
    /\ RunOver => HasTerminal(emitted)

(* ------------------------------- C2 ------------------------------------ *)
\* C2: when the client stays connected and producer and consumer keep
\* running, the client eventually receives a terminal event.
C2_EventuallyTerminal == ([]connected) => <>HasTerminal(sent)

\* a connected client has been sent the terminal event of a cancelled run
C2_Witness ==
    /\ connected /\ cpc = "closed" /\ pc = "finished"
    /\ HasType(sent, "cancelled") /\ sent[Len(sent)].type = "done"

(* ------------------------------- C3 ------------------------------------ *)
\* C3: the flag is read before each candidate URL (a unit of work starts
\* only when the read gave false); when the read gives true with a URL
\* left, the step emits cancelled and leaves the loop without a fetch; once
\* cancelled is emitted there is exactly one such event and no later
\* fetch, match or progress event.
C3_CancelStopsIteration ==
    [][ /\ (pc # "fetch" /\ pc' = "fetch") => (pc = "loop" /\ ~IsCancelled)
        /\ (pc = "loop" /\ idx < Len(links) /\ IsCancelled /\ pc' # pc)
              => /\ emitted' = Append(emitted, CancelledEv)
                 /\ pc' = "emit_done"
                 /\ fetched' = fetched
        /\ HasType(emitted, "cancelled")
              => /\ fetched' = fetched
                 /\ NumType(emitted', "cancelled") = 1
                 /\ NumType(emitted', "match") = NumType(emitted, "match")
                 /\ NumType(emitted', "progress") = NumType(emitted, "progress")
      ]_vars

\* a run was cancelled with a URL left, after one unit of work
C3_Witness ==
    /\ pc = "finished" /\ HasType(emitted, "cancelled")
    /\ Len(fetched) = 1 /\ Len(links) = 2

(* ------------------------------- C4 ------------------------------------ *)
\* units of work so far that did not raise
NumNotRaised == Cardinality({k \in 1 .. Len(outcomes) : outcomes[k] # "raise"})
\* every fetch so far returned a listing
AllFetched == \A k \in 1 .. Len(outcomes) : outcomes[k] # "none"
\* position of the cancelled event
CancelledAt == CHOOSE k \in 1 .. Len(emitted) : emitted[k].type = "cancelled"

\* C4 as claimed: in a run with non-empty searchId whose fetches all
\* succeed and that is cancelled after k units of work, exactly k progress
\* events have been emitted.
C4_Original ==
    (search_id # "" /\ HasType(emitted, "cancelled") /\ AllFetched)
       => NumType(emitted, "progress") = Len(fetched)

\* C4 amended: such a run has emitted the landing progress event and one
\* per-item progress event for each of the k units that raised no fault
\* (k + 1 progress events when none did); cancelled comes after all of
\* them and no match or progress event follows it.
C4_CancelAfterK ==
    (search_id # "" /\ HasType(emitted, "cancelled") /\ AllFetched)
       => /\ Len(fetched) = processed
          /\ NumType(emitted, "progress") = 1 + NumNotRaised
          /\ Cardinality({k \in 1 .. Len(emitted) :
                 emitted[k].type = "progress" /\ emitted[k].phase # "landing"})
               = NumNotRaised
          /\ NumType(emitted, "cancelled") = 1
          /\ \A k \in 1 .. Len(emitted) :
                emitted[k].type \in {"match", "progress"} => k < CancelledAt

\* cancelled after the first of two units, which fetched a listing
C4_Witness ==
    /\ search_id # "" /\ HasType(emitted, "cancelled") /\ AllFetched
    /\ Len(fetched) = 1 /\ Len(links) = 2 /\ NumNotRaised = 1
    /\ NumType(emitted, "progress") = 2

(* ------------------------------- C5 ------------------------------------ *)
\* C5: once the producer of a run with non-empty searchId has finished,
\* CANCEL_FLAGS holds no entry for its searchId, and the entry was removed
\* exactly once.
C5_FlagRemoved ==
    (pc = "finished" /\ search_id # "")
       => (search_id \notin DOMAIN flags /\ unregistered = 1)

(* ------------------------------- C6 ------------------------------------ *)
\* the run has registered its flag and its producer has not yet removed it
RunLive ==
    /\ category = "tops"
    /\ cpc # "request"
    /\ pc \notin {"sentinel", "finished"}

\* C6: every key of CANCEL_FLAGS is the non-empty searchId of a run that
\* has started and not yet terminated.
C6_RegistryInvariant ==
    \A k \in DOMAIN flags : k # "" /\ k = search_id /\ RunLive

(* ------------------------------- C7 ------------------------------------ *)
\* C7: no session resource is ever released twice, and once the run has
\* left the with block every resource it created was released exactly once.
C7_SessionReleasedOnce ==
    /\ \A r \in Resources : releases[r] <= 1
    /\ pc \in {"emit_error", "emit_error_done", "finally", "sentinel", "finished"}
          => \A r \in Resources :
                session[r] # "none" => (session[r] = "closed" /\ releases[r] = 1)

\* a run that failed after its browser was launched has finished
C7_Witness ==
    /\ pc = "finished" /\ HasType(emitted, "error")
    /\ session.browser = "closed" /\ releases.browser = 1

(* ------------------------------- C8 ------------------------------------ *)
\* C8 as claimed: when the consumer detects the disconnect, the run's flag
\* becomes true, the producer starts no candidate URL at its next flag
\* check, and the consumer forwards nothing more.
C8_Original ==
    [][ /\ (cpc = "poll" /\ cpc' = "disconnected")
              => FlagGet(flags', search_id)
        /\ (cpc = "disconnected" /\ pc = "loop") => pc' # "fetch"
        /\ cpc = "disconnected" => sent' = sent
      ]_vars

\* C8 amended: the same for a run with non-empty searchId; for an empty
\* searchId the consumer stops forwarding but the producer goes on.
C8_DisconnectCancels ==
    [][ /\ (cpc = "poll" /\ cpc' = "disconnected")
              => FlagGet(flags', search_id)
        /\ (search_id # "" /\ cpc = "disconnected" /\ pc = "loop")
              => pc' # "fetch"
        /\ cpc = "disconnected" => sent' = sent
      ]_vars

\* a disconnect was detected and the producer was cancelled with a URL left
C8_Witness ==
    /\ cpc = "disconnected" /\ search_id # ""
    /\ HasType(emitted, "cancelled") /\ idx < Len(links)

(* ------------------------------- C9 ------------------------------------ *)
\* C9: what the consumer has forwarded is a prefix of what the producer
\* has emitted.
C9_SentIsPrefix == IsPrefix(sent, emitted)

\* the consumer is three chunks into a stream and behind the producer
C9_Witness ==
    /\ category = "tops" /\ Len(sent) >= 3 /\ Len(sent) < Len(emitted)
    /\ Len(queue) >= 2

(* ------------------------------- C10 ----------------------------------- *)
\* C10: with maxItems >= 1 there are never more than maxItems match
\* events; once the counter has reached maxItems no further URL is
\* fetched, and the run ends with done and without an error event.
C10_MaxItems ==
    [][ max_items >= 1
          => /\ NumType(emitted', "match") <= max_items
             /\ (matches >= max_items => fetched' = fetched)
             /\ (pc' = "finished" /\ matches' >= max_items)
                   => /\ emitted'[Len(emitted')].type = "done"
                      /\ ~HasType(emitted', "error")
      ]_vars

\* maxItems = 1: the first of two URLs matched, the second was not fetched
C10_Witness ==
    /\ max_items = 1 /\ matches = 1 /\ pc = "finished"
    /\ Len(links) = 2 /\ Len(fetched) = 1
    /\ NumType(emitted, "match") = 1

(* ------------------------------- C11 ----------------------------------- *)
PerItemProgress(s) ==
    {k \in 1 .. Len(s) : s[k].type = "progress" /\ s[k].phase # "landing"}

\* C11: a run whose link collection returned no link emits one meta event,
\* with links = 0, no match, per-item progress, cancelled or error event,
\* fetches nothing, and ends with its one done event.
C11_ZeroLinks ==
    (HasType(emitted, "meta") /\ Len(links) = 0)
       => /\ NumType(emitted, "meta") = 1
          /\ \A k \in 1 .. Len(emitted) :
                emitted[k].type = "meta" => emitted[k].links = 0
          /\ ~HasType(emitted, "match")
          /\ PerItemProgress(emitted) = {}
          /\ ~HasType(emitted, "cancelled")
          /\ ~HasType(emitted, "error")
          /\ fetched = << >>
          /\ NumType(emitted, "done") <= 1
          /\ pc = "finished"
                => (NumType(emitted, "done") = 1
                    /\ emitted[Len(emitted)].type = "done")

\* a zero-link run is over
C11_Witness ==
    /\ pc = "finished" /\ HasType(emitted, "meta") /\ Len(links) = 0

(* ------------------------------- C12 ----------------------------------- *)
\* C12: a run whose landing-page navigation failed emits no meta, match or
\* progress event, fetches no listing, and emits exactly one error event.
C12_LandingFault ==
    fault = "landing"
       => /\ ~HasType(emitted, "meta")
          /\ ~HasType(emitted, "match")
          /\ ~HasType(emitted, "progress")
          /\ fetched = << >>
          /\ NumType(emitted, "error") <= 1
          /\ pc = "finished" => NumType(emitted, "error") = 1

\* a run whose landing navigation failed is over
C12_Witness == fault = "landing" /\ pc = "finished"

(* ------------------------------- C13 ----------------------------------- *)
\* C13: a unit of work whose fetch gave nothing emits one progress event
\* with processed one higher and matches unchanged, no match or error
\* event, raises no fault, and goes back to the loop head for the next URL.
C13_FetchNothing ==
    [][ (Len(outcomes') = Len(outcomes) + 1
         /\ outcomes'[Len(outcomes')] = "none")
           => /\ processed' = processed + 1
              /\ matches' = matches
              /\ Len(emitted') = Len(emitted) + 1
              /\ emitted'[Len(emitted')].type = "progress"
              /\ emitted'[Len(emitted')].processed = processed + 1
              /\ emitted'[Len(emitted')].matches = matches
              /\ fault' = fault
              /\ pc' = "loop"
      ]_vars

\* after a fetch that gave nothing the next URL was fetched
C13_Witness ==
    /\ Len(outcomes) = 2 /\ outcomes[1] = "none" /\ Len(fetched) = 2
    /\ ~HasType(emitted, "error")

(* ------------------------------- C14 ----------------------------------- *)
\* C14: for an unsupported category the handler leaves CANCEL_FLAGS as it
\* is, no producer and no session are created, and the stream is the
\* padding frame followed by done and nothing else.
C14_UnsupportedCategory ==
    [][ category # "tops"
          => /\ (cpc = "request" /\ cpc' # "request") => flags' = flags
             /\ pc' = "not_started"
             /\ \A r \in Resources : session'[r] = "none"
             /\ IsPrefix(emitted', <<SSE_PREAMBLE, EmptyDoneEv>>)
             /\ sent' = emitted'
             /\ cpc' = "closed" => emitted' = <<SSE_PREAMBLE, EmptyDoneEv>>
      ]_vars

\* the stream of a request for another category, with a searchId, is over
C14_Witness ==
    /\ category # "tops" /\ search_id # "" /\ cpc = "closed"
    /\ search_id \notin DOMAIN flags

(* ------------------------------- C15 ----------------------------------- *)
\* C15: a cancel call for an id without an entry leaves the registry
\* unchanged.
C15_UnknownIdNoOp ==
    [][ \A id \in CancelIds :
           (CancelObserved(id) /\ id \notin DOMAIN flags) => flags' = flags
      ]_vars

(* ------------------------------- C16 ----------------------------------- *)
\* C16 as claimed: every cancel call returns the acknowledgement
\* {ok: true, searchId}.
C16_Original == cancel_resp # NoResponse => cancel_resp.ok

\* C16 amended: a cancel call with a non-empty searchId, known or not,
\* returns {ok: true, searchId}; one with a missing or empty searchId
\* returns {ok: false, error: "missing searchId"} and changes no flag.
C16_CancelResponse ==
    [][ \A id \in CancelIds :
           CancelObserved(id)
              => IF id # ""
                 THEN /\ cancel_resp'.ok
                      /\ cancel_resp'.searchId = id
                      /\ cancel_resp'.error = ""
                 ELSE /\ ~cancel_resp'.ok
                      /\ cancel_resp'.error = "missing searchId"
                      /\ flags' = flags
      ]_vars

\* an unknown id was acknowledged and then an empty id was refused
C16_Witness ==
    /\ "B" \in DOMAIN flags /\ cancel_resp.error = "missing searchId"

(* ------------------------------- C17 ----------------------------------- *)
\* C17: a cancel call for the searchId of a live run whose flag is already
\* true changes neither the registry nor the run; the flag stays true and
\* the run never has more than one cancelled event.
C17_CancelIdempotent ==
    [][ /\ \A id \in CancelIds :
              (CancelObserved(id) /\ id # "" /\ id = search_id /\ RunLive
               /\ FlagGet(flags, id))
                 => (flags' = flags /\ FlagGet(flags', id)
                     /\ emitted' = emitted /\ pc' = pc)
        /\ NumType(emitted', "cancelled") <= 1
      ]_vars

\* two cancel calls reached a connected run, which emitted one cancelled
C17_Witness ==
    /\ connected /\ cancel_again /\ search_id # ""
    /\ cancel_resp.searchId = search_id
    /\ NumType(emitted, "cancelled") = 1

(* ------------------------------- C18 ----------------------------------- *)
\* C18: an id without an entry reads as not cancelled, and a run with
\* empty searchId never emits cancelled, whatever CANCEL_FLAGS holds.
C18_AbsentIsFalse ==
    /\ \A id \in CancelIds : id \notin DOMAIN flags => ~FlagGet(flags, id)
    /\ search_id \notin DOMAIN flags => ~IsCancelled
    /\ search_id = "" => ~HasType(emitted, "cancelled")

\* a run with empty searchId fetched both URLs although CANCEL_FLAGS[""]
\* is true
C18_Witness ==
    /\ search_id = "" /\ FlagGet(flags, "") /\ pc = "finished"
    /\ Len(fetched) = 2

(* ------------------------------- C19 ----------------------------------- *)
\* a unit of work that fetched a listing and extracted its measurements
Measured ==
    /\ Len(outcomes') = Len(outcomes) + 1
    /\ outcomes'[Len(outcomes')] \in {"match", "nomatch"}
MatchEmitted == NumType(emitted', "match") = NumType(emitted, "match") + 1

C20_Within ==
    \A v \in {item.p2p, item.length} :
       \A t \in {target_p2p, target_length} :
          /\ t = NoneInt => Within(v, t, tol)
          /\ (t # NoneInt /\ v = NoneInt) => ~Within(v, t, tol)
          /\ (t # NoneInt /\ v # NoneInt)
                => (Within(v, t, tol) <=> (v - t <= tol /\ t - v <= tol))

\* one listing shows the three cases: absent target, absent value, and a
\* value at the edge of the tolerance
C20_Witness ==
    /\ item.parsed /\ item.p2p = NoneInt /\ item.length = 42
    /\ target_p2p = NoneInt /\ target_length = 40 /\ tol = 2

(* ------------------------------- C21 ----------------------------------- *)
\* C21: extract_tops is total: for every text, a label followed by a mixed
\* fraction with a zero denominator ("19 1/0") included, it raises nothing
\* and returns a pair whose fields are each absent or a non-negative
\* number; a number that fails to parse only drops that candidate.
C21_ExtractTotal ==
    extracted.done
       => /\ ~extracted.raised
          /\ extracted.p2p = NoneInt \/ extracted.p2p >= 0
          /\ extracted.length = NoneInt \/ extracted.length >= 0

C23_Original == conv.done => conv.direct = conv.glued

\* C23 amended: to_inches takes the unit from its unit argument only:
\* to_inches(n, u) equals to_inches(n followed by u, "") just when u is
\* empty; for a non-empty u the number string with the unit glued on is
\* rejected (to_inches("19cm", "") raises ValueError), while
\* to_inches("19", "cm") is 19 / 2.54.
C23_UnitArgumentOnly ==
    conv.done
       => /\ conv.unit = "" => conv.glued = conv.direct
          /\ conv.unit # "" => conv.glued = Raised
          /\ (conv.num = NumStr(19, NoneInt, NoneInt, "") /\ conv.unit = "cm")
                => conv.direct * 254 = 19 * UnitsPerInch * 100
          /\ (conv.num = NumStr(19, NoneInt, NoneInt, "") /\ conv.unit # "cm")
                => conv.direct = 19 * UnitsPerInch

\* to_inches("19", "cm") gave 19 / 2.54 and to_inches("19cm", "") raised
C23_Witness ==
    /\ conv.done /\ conv.num = NumStr(19, NoneInt, NoneInt, "")
    /\ conv.unit = "cm"
    /\ conv.direct = 19 * 200 /\ conv.glued = Raised

(* ------------------------------- C24 ----------------------------------- *)
\* C24: in global-browse mode (no seller) a match event is emitted for a
\* fetched listing only if, besides both within checks, the seller's
\* soldCount is above 50; in seller mode soldCount plays no part.
C24_SoldCountGate ==
    [][ Measured
          => (MatchEmitted <=>
                /\ Within(item'.p2p, target_p2p, tol)
                /\ Within(item'.length, target_length, tol)
                /\ seller = "" => item'.sold > 50)
      ]_vars

(* ------------------------------- C25 ----------------------------------- *)
\* C25: in global-browse mode links are found step by step: when the known
\* links are used up the run scans for more, and it ends in done only once
\* two scans in a row gave no new link, so the step that leaves the loop
\* with the links used up goes to a scan.
C25_RescanWhenExhausted ==
    [][ (seller = "" /\ pc = "loop" /\ idx >= Len(links) /\ pc' # pc)
          => pc' = "collect"
      ]_vars

(* ------------------------------- C26 ----------------------------------- *)
\* C26: cancellation is cooperative: a unit of work that is in progress
\* when the flag is set is not aborted, its match and progress events are
\* still emitted, cancelled comes after them, and at most one unit of work
\* completes after the flag was set.
C26_CooperativeCancel ==
    [][ /\ (IsCancelled /\ pc = "fetch" /\ pc' # pc)
              => /\ Len(outcomes') = Len(outcomes) + 1
                 /\ ~HasType(emitted', "cancelled")
                 /\ outcomes'[Len(outcomes')] = "match"
                       => emitted' = Append(emitted, MatchEv)
        /\ (IsCancelled /\ pc = "progress" /\ pc' # pc)
              => /\ emitted' = Append(emitted,
                        ProgressEv(processed + 1, Len(links), matches'))
                 /\ processed' = processed + 1
        /\ set_at' # NoneInt => Len(outcomes') <= set_at' + 1
        /\ \A k \in 1 .. Len(emitted') :
              emitted'[k].type = "cancelled"
                 => \A j \in k + 1 .. Len(emitted') :
                       emitted'[j].type \notin {"match", "progress"}
      ]_vars

\* the flag was set while the first of two units was in progress: the unit
\* matched, its match and progress events went out, then cancelled
C26_Witness ==
    /\ set_at = 0 /\ outcomes = <<"match">> /\ Len(links) = 2
    /\ NumType(emitted, "match") = 1
    /\ Cardinality(PerItemProgress(emitted)) = 1
    /\ emitted[Len(emitted)].type = "cancelled"

(* ------------------------------- C27 ----------------------------------- *)
\* C27: registration merges with an earlier cancel: when the cancel of an
\* id was processed before the stream with that id registers its flag, the
\* flag is still true after the registration, so the run's first check
\* cancels it before any url is fetched.
C27_RegistrationKeepsCancel ==
    [][ (cpc = "request" /\ cpc' = "start" /\ IsCancelled)
          => FlagGet(flags', search_id)
      ]_vars

(* ------------------------------- C28 ----------------------------------- *)
\* C28: after every candidate url whose unit of work was started exactly
\* one progress event is emitted on every path (nothing fetched, no match,
\* match, fault inside the unit), so the number of per-item progress events
\* always equals processed.
C28_ProgressPerUnit ==
    /\ Cardinality(PerItemProgress(emitted)) = processed
    /\ pc \notin {"fetch", "progress"} => processed = Len(fetched)

(* ------------------------------- C29 ----------------------------------- *)
\* C29 as claimed: an unhandled fault while loading the landing page,
\* collecting links or iterating (other than a fetch that yields nothing)
\* aborts the whole run: the error event is emitted and no further url is
\* fetched.
C29_Original ==
    /\ (fault \in {"landing", "collect"} /\ pc = "finished")
          => (HasType(emitted, "error") /\ fetched = << >>)
    /\ \A k \in 1 .. Len(outcomes) :
          outcomes[k] = "raise"
             => /\ k = Len(outcomes)
                /\ pc \notin {"loop", "fetch", "progress"}
                /\ pc = "finished" => HasType(emitted, "error")

\* C29 amended: an unhandled fault while loading the landing page or
\* collecting links aborts the whole run: the error event is emitted, the
\* run ends in error and no url is fetched.  A fault raised inside a unit of
\* work is caught there: the url counts as processed, no error event is
\* emitted and the run goes on with the next url.
C29_FaultHandling ==
    [][ /\ fault' \in {"landing", "collect"}
              => /\ fetched' = << >>
                 /\ pc' \notin {"loop", "fetch", "progress", "emit_done"}
                 /\ NumType(emitted', "error") <= 1
                 /\ pc' = "finished"
                       => /\ Len(emitted') >= 2
                          /\ emitted'[Len(emitted') - 1] = ErrorEv
                          /\ emitted'[Len(emitted')] = DoneEv
        /\ fault' = "none" => ~HasType(emitted', "error")
        /\ (Len(outcomes') = Len(outcomes) + 1
            /\ outcomes'[Len(outcomes')] = "raise")
              => /\ pc' = "loop"
                 /\ processed' = processed + 1
                 /\ emitted' = emitted
                 /\ fault' = "none"
      ]_vars

\* the first unit of work raised and the second url was fetched all the
\* same; the run ended without an error event
C29_Witness ==
    /\ outcomes = <<"raise", "nomatch">> /\ Len(fetched) = 2
    /\ processed = 2 /\ pc = "finished"
    /\ ~HasType(emitted, "error") /\ HasType(emitted, "done")

(* ------------------------------- C30 ----------------------------------- *)
\* C30: in a run for the supported category that meets no fault the events
\* start with hello, then the progress event of phase "landing", then the
\* one meta event with the number of collected links; every match and
\* per-item progress event comes after meta, and the total of each
\* per-item progress event is the links of meta.  (The padding chunk that
\* opens the stream is no event.)
C30_EventOrder ==
    (category = "tops" /\ fault = "none")
       => /\ Len(emitted) >= 1 => emitted[1] = SSE_PREAMBLE
          /\ Len(emitted) >= 2 => emitted[2] = HelloEv
          /\ Len(emitted) >= 3 => emitted[3] = LandingEv
          /\ Len(emitted) >= 4 => emitted[4] = MetaEv(Len(links))
          /\ NumType(emitted, "hello") <= 1
          /\ NumType(emitted, "meta") <= 1
          /\ \A k \in 1 .. Len(emitted) :
                (emitted[k].type = "match" \/ k \in PerItemProgress(emitted))
                   => k > 4
          /\ \A k \in PerItemProgress(emitted) :
                emitted[k].total = emitted[4].links

\* a run of two units of work, one of them a match, ended without a fault
C30_Witness ==
    /\ category = "tops" /\ fault = "none" /\ pc = "finished"
    /\ Len(links) = 2 /\ processed = 2 /\ HasType(emitted, "match")
    /\ Cardinality(PerItemProgress(emitted)) = 2

(* ------------------------------- C31 ----------------------------------- *)
\* the producer thread has started and not ended
ProducerRunning == pc \notin {"not_started", "finished"}

\* C31: the producer is never blocked by the consumer: in every state where
\* the producer has a step to take, an event to hand to the queue
\* included, that step is enabled, whatever number of events the consumer
\* has not yet forwarded.
C31_ProducerNeverBlocked == ProducerRunning => ENABLED ProducerNext

\* the consumer stopped before it forwarded anything and the producer went
\* through two units of work to its end, every chunk left in the queue
C31_Witness ==
    /\ cpc = "disconnected" /\ sent = << >> /\ pc = "finished"
    /\ Len(fetched) = 2 /\ Len(queue) = Len(emitted) + 1

(* ------------------------------- C32 ----------------------------------- *)
\* C32: the queue between producer and consumer is bounded: a fixed
\* capacity limits the number of chunks emitted and not yet forwarded, also
\* when the consumer is slow or has stopped; so the queue never holds every
\* chunk of the longest run (padding, hello, landing, meta, a match and a
\* progress event per link, done, and the sentinel) at once, however many
\* links there are.
C32_BoundedChannel == Len(queue) < 2 * MaxLinks + 6

(* ------------------------------- C33 ----------------------------------- *)
\* C33: in extract_tops a value found by the label scan is never
\* overridden by a pair value: per dimension the first labelled match in
\* document order is the result whenever there is one, and a pair value is
\* the result only for a dimension without a labelled match (p2p may come
\* from a label while length comes from a pair).
C33_LabelBeforePair ==
    (extracted.done /\ ~extracted.raised)
       => LET p2p_labeled == LabeledFrom(text, "chest", 1)
              len_labeled == LabeledFrom(text, "length", 1)
              pairs == PairsFrom(text, 1)
          IN /\ p2p_labeled # << >> => extracted.p2p = p2p_labeled[1]
             /\ len_labeled # << >> => extracted.length = len_labeled[1]
             /\ (p2p_labeled = << >> /\ pairs # << >>)
                   => extracted.p2p = pairs[1][1]
             /\ (len_labeled = << >> /\ pairs # << >>)
                   => extracted.length = pairs[1][2]

\* "chest: 31 x 24": the label gives p2p 31 although the pair's smaller
\* value is 24, and the pair gives length 31
C33_Witness ==
    /\ extracted.done /\ text = <<Chest, N31, X, N24>>
    /\ extracted.p2p = 31 * UnitsPerInch
    /\ extracted.length = 31 * UnitsPerInch

(* ------------------------------- C34 ----------------------------------- *)
\* position of the first occurrence of url u in the hrefs h
FirstAt(h, u) == CHOOSE i \in 1 .. Len(h) :
                    h[i] = u /\ \A j \in 1 .. i - 1 : h[j] # u

\* C34: collect_listing_links returns the urls in first-seen order without
\* duplicates; with max_links >= 1 the result has at most max_links
\* entries; it makes at most max_scrolls scan passes, and it stops earlier
\* after a pass that added no link to what the pass before had.
C34_CollectLinks ==
    [][ cl'.on =>
        LET h == cl'.hrefs
            old == Len(cl.ordered)
            new == Len(cl'.ordered)
        IN
        /\ IsPrefix(cl.ordered, cl'.ordered)
        /\ \A a, b \in 1 .. new : a # b => cl'.ordered[a] # cl'.ordered[b]
        /\ cl'.seen = {cl'.ordered[k] : k \in 1 .. new}
        /\ cl'.max_links >= 1 => new <= cl'.max_links
        /\ cl'.passes <= cl'.max_scrolls
        /\ cl'.passes = cl.passes + 1
              => /\ \A k \in old + 1 .. new :
                       /\ cl'.ordered[k] # NoHref
                       /\ cl'.ordered[k] \notin cl.seen
                       /\ \E i \in 1 .. Len(h) : h[i] = cl'.ordered[k]
                 /\ \A a, b \in old + 1 .. new :
                       a < b => FirstAt(h, cl'.ordered[a])
                                   < FirstAt(h, cl'.ordered[b])
                 /\ ~cl'.by_limit
                       => \A i \in 1 .. Len(h) :
                             h[i] # NoHref => h[i] \in cl'.seen
                 /\ (cl.passes >= 1 /\ new = old /\ ~cl'.by_limit)
                       => cl'.at = "returned"
                 /\ cl'.at = "returned"
                       => \/ cl'.by_limit
                          \/ (cl.passes >= 1 /\ new = old)
      ]_vars

\* the first pass saw url 2 and then url 1, the second pass showed them the
\* other way round and added nothing: the call returned after two of its
\* three passes with the urls in the order of the first pass
C34_Witness ==
    /\ cl.on /\ cl.at = "returned" /\ cl.max_scrolls = 3 /\ cl.passes = 2
    /\ cl.ordered = <<2, 1>> /\ cl.hrefs = <<1, 2>> /\ ~cl.by_limit

(* ------------------------------- C35 ----------------------------------- *)
\* C35: in every state 0 <= matches <= processed <= total; processed grows
\* by exactly one per candidate url worked on (between two units of work it
\* is the number of urls given to parse_listing); each progress event
\* reports matches equal to the number of match events emitted before it,
\* and its processed value is greater than that of every earlier progress
\* event.
C35_Counters ==
    [][ /\ 0 <= matches' /\ matches' <= processed'
        /\ processed' <= Len(links')
        /\ processed' \in {processed, processed + 1}
        /\ (processed' = processed + 1) => pc \in {"fetch", "progress"}
        /\ (pc' \notin {"fetch", "progress"}) => processed' = Len(fetched')
        /\ \A k \in Len(emitted) + 1 .. Len(emitted') :
              emitted'[k].type = "progress"
                 => /\ emitted'[k].matches = NumType(emitted, "match")
                    /\ \A j \in 1 .. Len(emitted) :
                          emitted[j].type = "progress"
                             => emitted[j].processed < emitted'[k].processed
      ]_vars

\* two urls worked on: the first without a record, the second a match
C35_Witness ==
    /\ pc = "finished" /\ processed = 2 /\ matches = 1
    /\ outcomes = <<"none", "match">>
    /\ NumType(emitted, "progress") = 3
    /\ emitted[Len(emitted) - 1].type = "progress"
    /\ emitted[Len(emitted) - 1].matches = 1
    /\ emitted[Len(emitted) - 1].processed = 2

(* ------------------------------- C36 ----------------------------------- *)
\* C36: the urls given to parse_listing are a prefix of the collected links,
\* in their order, and no url is given twice; a match event is emitted only
\* by the unit of work of a url, at most one per url, and it comes before
\* the progress event of that url: until that progress event it is the
\* last event, and the event after it is the progress event whose
\* processed is the position of the url.
C36_FetchOnceInOrder ==
    [][ /\ IsPrefix(fetched', links')
        /\ \A j, k \in 1 .. Len(fetched') :
              fetched'[j] = fetched'[k] => j = k
        /\ NumType(emitted', "match")
              = Cardinality({k \in 1 .. Len(outcomes') :
                                outcomes'[k] = "match"})
        /\ NumType(emitted', "match") # NumType(emitted, "match")
              => /\ NumType(emitted', "match") = NumType(emitted, "match") + 1
                 /\ fetched' = Append(fetched, links[idx])
                 /\ emitted'[Len(emitted')].type = "match"
                 /\ pc' = "progress"
        /\ pc = "progress" /\ emitted[Len(emitted)].type = "match"
              => /\ fetched' = fetched
                 /\ emitted' # emitted
                       => emitted' = Append(emitted,
                             ProgressEv(Len(fetched), Len(links),
                                        NumType(emitted, "match")))
      ]_vars

\* both urls matched: match, progress 1, match, progress 2
C36_Witness ==
    /\ pc = "finished" /\ fetched = <<1, 2>> /\ links = <<1, 2>>
    /\ outcomes = <<"match", "match">>
    /\ \E k \in 1 .. Len(emitted) - 3 :
          /\ emitted[k].type = "match"
          /\ emitted[k + 1].type = "progress" /\ emitted[k + 1].processed = 1
          /\ emitted[k + 2].type = "match"
          /\ emitted[k + 3].type = "progress" /\ emitted[k + 3].processed = 2

(* ------------------------------- C37 ----------------------------------- *)
\* C37: a cancelled event is emitted only by the flag check at the head of
\* an iteration, with the flag set and a url still to process; once
\* maxItems (>= 1) is reached the loop head is not visited again; a run
\* that has processed every link (an empty list included) or has reached
\* maxItems (>= 1) ends with a done event and without a cancelled event, whenever
\* the flag was set.
C37_CancelledOnlyAtCheck ==
    [][ /\ NumType(emitted', "cancelled") # NumType(emitted, "cancelled")
              => /\ pc = "loop" /\ idx < Len(links)
                 /\ search_id # "" /\ FlagGet(flags, search_id)
                 /\ emitted' = Append(emitted, CancelledEv)
        /\ (max_items >= 1 /\ matches' >= max_items) => pc' # "loop"
        /\ (pc' = "finished"
               /\ \/ Len(fetched') = Len(links')
                  \/ max_items >= 1 /\ matches' >= max_items)
              => /\ HasType(emitted', "done")
                 /\ ~HasType(emitted', "cancelled")
      ]_vars

\* the flag was set when both links had been processed: done, no cancelled
C37_Witness ==
    /\ set_at = 2 /\ Len(links) = 2 /\ Len(fetched) = 2
    /\ search_id # "" /\ FlagGet(flags, search_id)
    /\ pc = "close"
    /\ emitted[Len(emitted)].type = "done"
    /\ ~HasType(emitted, "cancelled")

Entry(f, id) == IF id \in DOMAIN f THEN <<f[id]>> ELSE << >>
\* everything of the run modelled step by step but CANCEL_FLAGS
RunVars == <<reqVars, pc, cpc, connected, queue, emitted, sent, loopVars,
             sessVars, unregistered, fault, item>>

\* C39: two concurrent runs with distinct searchIds do not interfere.  A
\* step of the one run, or a cancel call for its id (its registration, the
\* disconnect of its client, its teardown included), leaves the flag entry
\* of the other run and every variable of the other run as they are, in
\* both directions; the flag of a run turns true only by a cancel call
\* for its own id or by the disconnect of its own client, and a run emits
\* cancelled only with its own flag true; so the events of a run are those
\* it emits without the other run.
C39_Isolation ==
    [][ /\ (other' # other \/ Entry(flags', OtherId) # Entry(flags, OtherId))
              => /\ Entry(flags', search_id) = Entry(flags, search_id)
                 /\ UNCHANGED RunVars
                 /\ set_at' = set_at
        /\ (RunVars' # RunVars
               \/ Entry(flags', search_id) # Entry(flags, search_id))
              => /\ Entry(flags', OtherId) = Entry(flags, OtherId)
                 /\ other' = other
        /\ (FlagGet(flags', search_id) /\ ~FlagGet(flags, search_id))
              => \/ UNCHANGED RunVars
                 \/ cpc = "poll" /\ ~connected /\ cpc' = "disconnected"
        /\ NumType(emitted', "cancelled") # NumType(emitted, "cancelled")
              => FlagGet(flags, search_id)
      ]_vars

\* run "A" was cancelled and torn down next to a registered, uncancelled
\* run "B" whose entry is still there
C39_Witness ==
    /\ other = "running" /\ Entry(flags, OtherId) = <<FALSE>>
    /\ search_id = "A" /\ pc = "finished" /\ unregistered = 1
    /\ cpc = "disconnected"
    /\ HasType(emitted, "cancelled")
====
